---------------------------- MODULE Spec2Model ----------------------------
(***************************************************************************)
(* PokeChat Advisor: the two-stage chat pipeline (backend/routes/chat.py), *)
(* the completion engine's output splitting (ml_models/model_manager.py),  *)
(* the history windowing (backend/services/llm_service.py), the card       *)
(* search executor and the response formatter                              *)
(* (external/pokemon_tcg_api.py, backend/services/pokemon_service.py).     *)
(*                                                                         *)
(* Text is modelled as a sequence of tokens (TLA+ strings).  Every         *)
(* whitespace character that a strip() can reach, and every piece a        *)
(* substring test looks for ("Error" followed by ":", "No cards found"),   *)
(* is a token of its own, so that Python's `in`, strip(), replace() and    *)
(* lower() on strings are the same operations on token sequences.          *)
(***************************************************************************)
EXTENDS Integers, Sequences, FiniteSets, TLC

(***************************************************************************)
(* Bounds of the model.                                                    *)
(***************************************************************************)
MaxTokens == 12
MaxShort == 4
MaxHistory == 7
MaxCards == 6
MaxLifecycle == 5
MaxRequests == 2
MaxSubmissions == 3

(***************************************************************************)
(* Program constants.                                                      *)
(***************************************************************************)
THINK_END == 151668
CARD_LIMIT == 5
HISTORY_WINDOW == 6
PAGE_SIZE == 10
PAGE == 1
QUERY_MAX_NEW_TOKENS == 100
ANSWER_MAX_NEW_TOKENS == 512

(***************************************************************************)
(* Text helpers: Python's str operations on token sequences.               *)
(***************************************************************************)
Whitespace == {" ", "\n", "\t"}

Newline == {"\n"}

SetMin(S) == CHOOSE m \in S : \A k \in S : m <= k

SetMax(S) == CHOOSE m \in S : \A k \in S : m >= k

\* s.strip(chars): drop the leading and trailing tokens that are in chars.
StripSet(s, chars) ==
    LET keep == {i \in 1..Len(s) : s[i] \notin chars}
    IN  IF keep = {} THEN <<>> ELSE SubSeq(s, SetMin(keep), SetMax(keep))

\* s.strip()
Strip(s) == StripSet(s, Whitespace)

\* s.replace(old, new) for single-character old and new.
Replace(s, old, new) == [i \in 1..Len(s) |-> IF s[i] = old THEN new ELSE s[i]]

\* pat in s
Contains(s, pat) ==
    \E i \in 0..(Len(s) - Len(pat)) : SubSeq(s, i + 1, i + Len(pat)) = pat

\* s.startswith(pat)
StartsWith(s, pat) == Len(s) >= Len(pat) /\ SubSeq(s, 1, Len(pat)) = pat

\* sep.join(parts), parts a sequence of texts
RECURSIVE JoinText(_, _)
JoinText(parts, sep) ==
    IF Len(parts) = 0 THEN <<>>
    ELSE IF Len(parts) = 1 THEN parts[1]
    ELSE parts[1] \o sep \o JoinText(Tail(parts), sep)

\* seq[:n]
Take(seq, n) == SubSeq(seq, 1, IF Len(seq) < n THEN Len(seq) ELSE n)

\* seq[-n:]
LastN(seq, n) == SubSeq(seq, IF Len(seq) < n THEN 1 ELSE Len(seq) - n + 1, Len(seq))

\* seq[::-1]
Reverse(seq) == [i \in 1..Len(seq) |-> seq[Len(seq) + 1 - i]]

\* All sequences over S of length at most n.
SeqsUpTo(S, n) == UNION {[1..k -> S] : k \in 0..n}

(***************************************************************************)
(* ModelManager (ml_models/model_manager.py).                              *)
(***************************************************************************)
\* Token ids of the engine's vocabulary: the sentinel </think>, the
\* end-of-turn special token, newline, space and three word pieces.
EOS == 151645
TOK_NL == 198
TOK_SP == 220
TOK_NAME == 606
TOK_COLON == 25
TOK_PIKACHU == 47

Vocabulary == {THINK_END, EOS, TOK_NL, TOK_SP, TOK_NAME, TOK_COLON, TOK_PIKACHU}

SpecialTokens == {EOS}

TokenText(id) ==
    CASE id = THINK_END -> "</think>"
      [] id = EOS -> "<|im_end|>"
      [] id = TOK_NL -> "\n"
      [] id = TOK_SP -> " "
      [] id = TOK_NAME -> "name"
      [] id = TOK_COLON -> ":"
      [] id = TOK_PIKACHU -> "Pikachu"

\* tokenizer.decode(ids, skip_special_tokens=True)
RECURSIVE Decode(_)
Decode(ids) ==
    IF Len(ids) = 0 THEN <<>>
    ELSE (IF ids[1] \in SpecialTokens THEN <<>> ELSE <<TokenText(ids[1])>>)
         \o Decode(Tail(ids))

\* list.index(x): 0-based position of the first x, defined when x occurs.
\* ModelManager.__new__: the instance the call ModelManager() yields and the
\* number of objects made so far.  An object is named by its number;
\* <<>> is None and <<x>> is the value x.
__new__(instance, objects) ==
    IF instance = <<>>
    THEN [instance |-> <<objects + 1>>, objects |-> objects + 1]
    ELSE [instance |-> instance, objects |-> objects]

\* ModelManager.__init__: the handles after the call.
\* Mutant: the _initialized test is left out.
__init__unguarded(initialized, tok, mdl) ==
    [tokenizer |-> <<>>, model |-> <<>>]

__init__(initialized, tok, mdl) ==
    IF ~initialized
    THEN [tokenizer |-> <<>>, model |-> <<>>]
    ELSE [tokenizer |-> tok, model |-> mdl]

ListIndex(seq, x) == SetMin({i \in 1..Len(seq) : seq[i] = x}) - 1

\* Mutant: the split after the first sentinel, output_ids.index(151668) + 1.
SplitIndexFirst(output_ids) ==
    IF \E i \in 1..Len(output_ids) : output_ids[i] = THINK_END
    THEN ListIndex(output_ids, THINK_END) + 1
    ELSE 0

\* Mutant: on ValueError the index is len(output_ids), all output reasoning.
SplitIndexAllReasoning(output_ids) ==
    IF \E i \in 1..Len(output_ids) : output_ids[i] = THINK_END
    THEN Len(output_ids) - ListIndex(Reverse(output_ids), THINK_END)
    ELSE Len(output_ids)

\* index = len(output_ids) - output_ids[::-1].index(151668), 0 on ValueError
SplitIndex(output_ids) ==
    IF \E i \in 1..Len(output_ids) : output_ids[i] = THINK_END
    THEN Len(output_ids) - ListIndex(Reverse(output_ids), THINK_END)
    ELSE 0

\* The part of generate_response after model.generate: the split of
\* output_ids and the decoding of the two segments.
generate_response(output_ids) ==
    LET index == SplitIndex(output_ids)
        reasoning_ids == SubSeq(output_ids, 1, index)
        content_ids == SubSeq(output_ids, index + 1, Len(output_ids))
    IN  [index |-> index,
         reasoning_ids |-> reasoning_ids,
         content_ids |-> content_ids,
         thinking_content |-> StripSet(Decode(reasoning_ids), Newline),
         content |-> StripSet(Decode(content_ids), Newline)]

(***************************************************************************)
(* LLMService (backend/services/llm_service.py) and the stage-2 prompt     *)
(* (ml_models/prompts/answer_generation.py).                               *)
(***************************************************************************)
\* An Optional value: None is <<>>, a value v is <<v>>.
None == <<>>

Some(v) == <<v>>

\* role = "User" if msg.role == "user" else "Assistant"; f"{role}: {msg.content}"
HistoryLine(msg) ==
    <<(IF msg.role = "user" THEN "User" ELSE "Assistant"), ":", " ">> \o msg.content

\* Mutant: the window is history[:6], the oldest turns.
_format_conversation_history_oldest(history) ==
    IF Len(history) = 0 THEN <<>>
    ELSE LET window == Take(history, HISTORY_WINDOW)
         IN  JoinText([i \in 1..Len(window) |-> HistoryLine(window[i])], <<"\n">>)

_format_conversation_history(history) ==
    IF Len(history) = 0 THEN <<>>
    ELSE LET window == LastN(history, HISTORY_WINDOW)
         IN  JoinText([i \in 1..Len(window) |-> HistoryLine(window[i])], <<"\n">>)

\* generate_answer, lines 60-63: history_text stays None for a falsy history.
HistoryText(conversation_history) ==
    IF Len(conversation_history) > 0
    THEN Some(_format_conversation_history(conversation_history))
    ELSE None

\* get_answer_generation_prompt: the template chosen and the values that
\* fill its slots.
get_answer_generation_prompt(user_question, api_response, conversation_history) ==
    IF conversation_history # None /\ Len(conversation_history[1]) > 0
    THEN [template |-> "ANSWER_GENERATION_WITH_HISTORY_PROMPT",
          user_question |-> user_question,
          api_response |-> api_response,
          conversation_history |-> conversation_history[1]]
    ELSE [template |-> "ANSWER_GENERATION_PROMPT",
          user_question |-> user_question,
          api_response |-> api_response]

\* get_query_generation_prompt
get_query_generation_prompt(user_question) ==
    [template |-> "QUERY_GENERATION_PROMPT", user_question |-> user_question]

\* generate_answer, lines 60-70: the prompt handed to the engine.
AnswerPrompt(user_question, api_response, conversation_history) ==
    get_answer_generation_prompt(user_question, api_response,
                                 HistoryText(conversation_history))

\* Mutant: the strip() is left out.
CleanQueryNoStrip(content) == Replace(content, "\n", " ")

\* generate_api_query, line 39: query.strip().replace("\n", " ")
\* Mutant: the newlines are not replaced.
CleanQueryNoReplace(content) == Strip(content)

CleanQuery(content) == Replace(Strip(content), "\n", " ")

(***************************************************************************)
(* PokemonTCGAPIClient (external/pokemon_tcg_api.py).                      *)
(***************************************************************************)
\* A Python dict is a function from its keys; {} is the empty function.
EmptyDict == [k \in {} |-> <<>>]

\* Mutant: the default is forgotten.
GetNoDefault(d, k, default) == IF k \in DOMAIN d THEN d[k] ELSE <<>>

\* d.get(k, default)
Get(d, k, default) == IF k \in DOMAIN d THEN d[k] ELSE default

Unknown == <<"Unknown">>

\* f"{w.get('type', 'Unknown')} ({w.get('value', 'N/A')})"
TypeValue(w) ==
    Get(w, "type", Unknown) \o <<" ", "(">> \o Get(w, "value", <<"N/A">>) \o <<")">>

\* f"{a.get('name', 'Unknown')}: {a.get('text', 'No description')}"
AbilityLine(a) ==
    Get(a, "name", Unknown) \o <<":", " ">> \o Get(a, "text", <<"No description">>)

\* f"{name} ({', '.join(cost)}): {damage} - {text}"
AttackLine(a) ==
    Get(a, "name", Unknown) \o <<" ", "(">>
        \o JoinText(Get(a, "cost", <<>>), <<",", " ">>) \o <<")", ":", " ">>
        \o Get(a, "damage", <<"0">>) \o <<" ", "-", " ">>
        \o Get(a, "text", <<"No description">>)

\* The list comprehensions of format_cards_for_llm and extract_card_info.
TypeValues(ws) == [i \in 1..Len(ws) |-> TypeValue(ws[i])]

AbilityLines(abs) == [i \in 1..Len(abs) |-> AbilityLine(abs[i])]

AttackLines(atts) == [i \in 1..Len(atts) |-> AttackLine(atts[i])]

\* sep.join(parts) if parts else 'None'
JoinOrNone(parts, sep) == IF Len(parts) > 0 THEN JoinText(parts, sep) ELSE <<"None">>

\* format_cards_for_llm, lines 160-204: card_info and the stripped block of
\* one card.
CardBlock(card) ==
    LET name == Get(card, "name", Unknown)
        id == Get(card, "id", Unknown)
        supertype == Get(card, "supertype", Unknown)
        subtypes == JoinText(Get(card, "subtypes", <<>>), <<",", " ">>)
        hp == Get(card, "hp", <<"N/A">>)
        types == JoinText(Get(card, "types", <<>>), <<",", " ">>)
        weaknesses == TypeValues(Get(card, "weaknesses", <<>>))
        resistances == TypeValues(Get(card, "resistances", <<>>))
        retreat_cost == Len(Get(card, "retreatCost", <<>>))
        set == Get(Get(card, "set", EmptyDict), "name", Unknown)
        rarity == Get(card, "rarity", Unknown)
        image_url == Get(Get(card, "images", EmptyDict), "small", <<>>)
        abilities == AbilityLines(Get(card, "abilities", <<>>))
        attacks == AttackLines(Get(card, "attacks", <<>>))
        formatted ==
            <<"\n", "Card", ":", " ">> \o name
            \o <<"\n", "ID", ":", " ">> \o id
            \o <<"\n", "Type", ":", " ">> \o supertype \o <<" ", "-", " ">> \o subtypes
            \o <<"\n", "HP", ":", " ">> \o hp
            \o <<"\n", "Types", ":", " ">> \o types
            \o <<"\n", "Weaknesses", ":", " ">> \o JoinOrNone(weaknesses, <<",", " ">>)
            \o <<"\n", "Resistances", ":", " ">> \o JoinOrNone(resistances, <<",", " ">>)
            \o <<"\n", "Retreat Cost", ":", " ", ToString(retreat_cost)>>
            \o <<"\n", "Set", ":", " ">> \o set
            \o <<"\n", "Rarity", ":", " ">> \o rarity
            \o <<"\n", "Image URL", ":", " ">> \o image_url
            \o <<"\n", "Abilities", ":", " ">> \o JoinOrNone(abilities, <<";", " ">>)
            \o <<"\n", "Attacks", ":", " ">> \o JoinOrNone(attacks, <<";", " ">>)
            \o <<"\n">>
    IN  Strip(formatted)

BlockSeparator == <<"\n", "\n", "---", "\n", "\n">>

NoCardsFound == <<"No cards found", " ", "matching", " ", "the", " ", "query.">>

ErrorPrefix == <<"Error", ":">>

\* Mutant: the data test is made before the error test.
format_cards_for_llm_data_first(api_response) ==
    IF "data" \notin DOMAIN api_response \/ Len(api_response["data"]) = 0
    THEN NoCardsFound
    ELSE IF "error" \in DOMAIN api_response
    THEN ErrorPrefix \o <<" ">> \o Get(api_response, "message", <<"Unknown error">>)
    ELSE LET cards == Take(api_response["data"], CARD_LIMIT)
         IN  JoinText([i \in 1..Len(cards) |-> CardBlock(cards[i])], BlockSeparator)

format_cards_for_llm(api_response) ==
    IF "error" \in DOMAIN api_response
    THEN ErrorPrefix \o <<" ">> \o Get(api_response, "message", <<"Unknown error">>)
    ELSE IF "data" \notin DOMAIN api_response \/ Len(api_response["data"]) = 0
    THEN NoCardsFound
    ELSE LET cards == Take(api_response["data"], CARD_LIMIT)
         IN  JoinText([i \in 1..Len(cards) |-> CardBlock(cards[i])], BlockSeparator)

\* The class hierarchy the except clauses of search_cards match against.
RequestErrorClasses == {"ConnectError", "ReadTimeout"}

\* str(code)
StatusText(code) == <<ToString(code)>>

\* Mutant: the last except clause is left out, other exceptions propagate.
search_cards_no_catch_all(outcome) ==
    IF "raised" \in DOMAIN outcome
    THEN IF outcome.raised \in RequestErrorClasses
         THEN [returned |-> [error |-> <<"Request error occurred">>,
                             message |-> outcome.message,
                             type |-> <<outcome.raised>>]]
         ELSE [raised |-> outcome.raised]
    ELSE IF outcome.status_code >= 400
    THEN [returned |-> [error |-> <<"HTTP error occurred", ":", " ">>
                                      \o StatusText(outcome.status_code),
                        message |-> <<"Client error", " ">>
                                      \o StatusText(outcome.status_code),
                        response_text |-> <<"body">>]]
    ELSE IF "json" \in DOMAIN outcome.text
    THEN [returned |-> outcome.text.json]
    ELSE [raised |-> "Exception"]

\* search_cards, lines 62-101: what the call does with what the network
\* request did.  An outcome is a transport failure [raised |-> class], or
\* a response [status_code, text] whose text is a JSON object
\* [json |-> payload], a JSON array [array |-> items] or no JSON at all.
search_cards(outcome) ==
    IF "raised" \in DOMAIN outcome
    THEN IF outcome.raised \in RequestErrorClasses
         THEN [returned |-> [error |-> <<"Request error occurred">>,
                             message |-> outcome.message,
                             type |-> <<outcome.raised>>]]
         ELSE [returned |-> [error |-> <<"Unexpected error occurred">>,
                             message |-> outcome.message,
                             type |-> <<outcome.raised>>]]
    ELSE IF outcome.status_code >= 400
    THEN [returned |-> [error |-> <<"HTTP error occurred", ":", " ">>
                                      \o StatusText(outcome.status_code),
                        message |-> <<"Client error", " ">>
                                      \o StatusText(outcome.status_code),
                        response_text |-> <<"body">>]]
    ELSE IF "json" \in DOMAIN outcome.text
    THEN [returned |-> outcome.text.json]
    ELSE IF "array" \in DOMAIN outcome.text
    THEN [returned |-> [error |-> <<"Unexpected error occurred">>,
                        message |-> <<"'list' object has no attribute 'keys'">>,
                        type |-> <<"AttributeError">>]]
    ELSE [returned |-> [error |-> <<"Unexpected error occurred">>,
                        message |-> <<"Expecting value">>,
                        type |-> <<"JSONDecodeError">>]]

(***************************************************************************)
(* PokemonService (backend/services/pokemon_service.py).                   *)
(***************************************************************************)
\* str.lower() on one token.
LowerToken(t) ==
    CASE t = "Pikachu" -> "pikachu"
      [] t = "Charizard" -> "charizard"
      [] t = "I" -> "i"
      [] t = "Could you please" -> "could you please"
      [] t = "For example" -> "for example"
      [] OTHER -> t

\* s.lower()
Lower(s) == [i \in 1..Len(s) |-> LowerToken(s[i])]

\* _search_in_demo_data: demo_data is the table in file order, a sequence
\* of [key, value].
_search_in_demo_data(demo_data, query) ==
    LET query_lower == Lower(query)
        first == {i \in 1..Len(demo_data) : Contains(query_lower, demo_data[i].key)}
        second == {i \in 1..Len(demo_data) :
                      \/ Contains(query_lower, demo_data[i].key)
                      \/ Contains(demo_data[i].key, query_lower)}
    IN  IF first # {} THEN demo_data[SetMin(first)].value
        ELSE IF second # {} THEN demo_data[SetMin(second)].value
        ELSE [data |-> <<>>, count |-> 0]

\* f"{a.get('name', 'Unknown')} - {a.get('damage', '0')} damage"
AttackSummary(a) ==
    Get(a, "name", Unknown) \o <<" ", "-", " ">> \o Get(a, "damage", <<"0">>)
        \o <<" ", "damage">>

\* d.get(k): None when the key is missing
GetOptional(d, k) == IF k \in DOMAIN d THEN Some(d[k]) ELSE None

\* extract_card_info, lines 125-150: the CardInfo of one record.
CardInfo(card_data) ==
    [name |-> Get(card_data, "name", Unknown),
     id |-> Get(card_data, "id", Unknown),
     hp |-> GetOptional(card_data, "hp"),
     types |-> Get(card_data, "types", <<>>),
     weaknesses |-> TypeValues(Get(card_data, "weaknesses", <<>>)),
     resistances |-> TypeValues(Get(card_data, "resistances", <<>>)),
     retreat_cost |-> Len(Get(card_data, "retreatCost", <<>>)),
     image_url |-> GetOptional(Get(card_data, "images", EmptyDict), "small"),
     abilities |-> AbilityLines(Get(card_data, "abilities", <<>>)),
     attacks |-> [i \in 1..Len(Get(card_data, "attacks", <<>>)) |->
                    AttackSummary(Get(card_data, "attacks", <<>>)[i])],
     set_name |-> GetOptional(Get(card_data, "set", EmptyDict), "name"),
     rarity |-> GetOptional(card_data, "rarity")]

\* Mutant: the [:5] is left out.
extract_card_info_unbounded(api_response) ==
    IF "error" \in DOMAIN api_response \/ "data" \notin DOMAIN api_response
    THEN <<>>
    ELSE LET cards == Get(api_response, "data", <<>>)
         IN  [i \in 1..Len(cards) |-> CardInfo(cards[i])]

\* Mutant: the error test is left out.
extract_card_info_no_error_test(api_response) ==
    IF "data" \notin DOMAIN api_response
    THEN <<>>
    ELSE LET cards == Take(Get(api_response, "data", <<>>), CARD_LIMIT)
         IN  [i \in 1..Len(cards) |-> CardInfo(cards[i])]

extract_card_info(api_response) ==
    IF "error" \in DOMAIN api_response \/ "data" \notin DOMAIN api_response
    THEN <<>>
    ELSE LET cards == Take(Get(api_response, "data", <<>>), CARD_LIMIT)
         IN  [i \in 1..Len(cards) |-> CardInfo(cards[i])]

(***************************************************************************)
(* The chat endpoint (backend/routes/chat.py).                             *)
(***************************************************************************)
ApologyMessage ==
    <<"I", " ", "couldn't find", " ", "any cards matching your question.", " ",
      "Could you please", " ", "rephrase", " ",
      "your question or provide more details?", " ", "For example", ",", " ",
      "you could specify a card name, type, or other characteristics.">>

\* ChatResponse(response=..., cards=..., query_used=...)
ChatResponse(text, cards, query_used) ==
    [kind |-> "ChatResponse", response |-> text, cards |-> cards,
     query_used |-> query_used]

\* raise HTTPException(status_code=500, ...)
HTTPException500 == [kind |-> "HTTPException", status_code |-> 500]

\* Mutant: only the "Error:" test is made.
NoResultsCheckErrorOnly(api_response_formatted) ==
    Contains(api_response_formatted, ErrorPrefix)

\* chat, line 39: the test that takes the no-results return.
NoResultsCheck(api_response_formatted) ==
    \/ Contains(api_response_formatted, <<"No cards found">>)
    \/ Contains(api_response_formatted, ErrorPrefix)

VARIABLES
    output_ids,     \* generate_response: the engine's output token stream
    gen,            \* generate_response: its result, <<>> before the call
    hist_in,        \* generate_answer: the conversation_history argument
    hist_out,       \* generate_answer: history_text and prompt, <<>> before the call
    fmt_in,         \* the formatter: the api_response argument, None or Some
    fmt_out,        \* the formatter: the text and the cards, None before the call
    tasks,          \* the event loop: the chat coroutine of each request
    running,        \* the event loop: the task that runs, None or Some(request)
    in_engine,      \* the requests that are inside generate_response
    session_messages,   \* st.session_state.messages
    session_conversation_history,   \* st.session_state.conversation_history
    script,         \* main: where the script run stands
    sent,           \* history: the last request sent to the backend, None or Some
    submissions,    \* history: the number of prompts submitted
    tokenizer,      \* ModelManager.tokenizer: None or Some(handle)
    model,          \* ModelManager.model: None or Some(handle)
    _instance,      \* ModelManager._instance: None or Some(object)
    _initialized,   \* ModelManager._initialized
    objects,        \* history: the number of ModelManager objects made
    last_new,       \* history: what the last ModelManager() call yielded
    lifecycle,      \* history: the calls made on the engine, in order
    demo_mode,      \* PokemonService.demo_mode
    demo_data,      \* PokemonService.demo_data, in file order
    pc,             \* chat: where the handler of the request stands
    message,        \* ChatRequest.message
    conversation_history,   \* ChatRequest.conversation_history
    api_query,      \* chat: api_query, None before stage 1 returned
    api_response_raw,       \* chat: api_response_raw
    api_response_formatted, \* chat: api_response_formatted
    answer,         \* chat: answer
    response,       \* what the handler returned or raised, None while it runs
    stages,         \* history: the stages entered, in order
    engine_calls,   \* history: the generate_response calls, in order
    engine_returns, \* history: what each generate_response call returned or raised
    search_calls,   \* history: the PokemonTCGAPIClient.search_cards calls
    requests_sent,  \* history: the number of network requests issued
    network_outcome \* history: what the network request did, None before it ends

splitVars == <<output_ids, gen>>

histVars == <<hist_in, hist_out>>

formatVars == <<fmt_in, fmt_out>>

loopVars == <<tasks, running, in_engine>>

sessionVars == <<session_messages, session_conversation_history, script, sent, submissions>>

outerVars == <<loopVars, sessionVars>>

engineVars == <<tokenizer, model>>

managerVars == <<_instance, _initialized, objects, last_new, lifecycle>>

serviceVars == <<demo_mode, demo_data>>

requestVars == <<message, conversation_history>>

chatVars ==
    <<pc, api_query, api_response_raw, api_response_formatted, answer, response,
      stages, engine_calls, engine_returns, search_calls, requests_sent,
      network_outcome>>

pipeVars == <<engineVars, managerVars, serviceVars, requestVars, chatVars>>

vars == <<splitVars, histVars, formatVars, outerVars, pipeVars>>

SplitIdle == output_ids = <<>> /\ gen = <<>>

HistIdle == hist_in = <<>> /\ hist_out = <<>>

FormatIdle == fmt_in = None /\ fmt_out = None

\* No request is on the event loop.
LoopIdle == tasks = <<>> /\ running = None /\ in_engine = {}

\* initialize_session_state: the session of a page that was just opened.
SessionIdle ==
    /\ session_messages = <<>> /\ session_conversation_history = <<>>
    /\ script = "idle" /\ sent = None /\ submissions = 0

OuterIdle == LoopIdle /\ SessionIdle

(***************************************************************************)
(* The inputs of the pipeline: card records, payloads of the data source,  *)
(* outcomes of the network request, outputs of the engine, requests.       *)
(***************************************************************************)
CardFull ==
    [name |-> <<"Pikachu">>, id |-> <<"base1-58">>, supertype |-> <<"Pokemon">>,
     subtypes |-> << <<"Basic">> >>, hp |-> <<"60">>,
     types |-> << <<"Lightning">> >>,
     weaknesses |-> << [type |-> <<"Fighting">>, value |-> <<"x2">>] >>,
     retreatCost |-> << <<"Colorless">> >>,
     set |-> [name |-> <<"Base">>], rarity |-> <<"Common">>,
     images |-> [small |-> <<"https://images/base1/58.png">>],
     attacks |-> << [name |-> <<"Gnaw">>, cost |-> << <<"Colorless">> >>,
                     damage |-> <<"10">>, text |-> <<>>] >>]

\* A record with an ability whose name is the word Error.
CardError ==
    [name |-> <<"Porygon">>, id |-> <<"base1-39">>,
     abilities |-> << [name |-> <<"Error">>,
                       text |-> <<"Flip", " ", "a", " ", "coin.">>] >>]

\* A record whose attack text holds the words of the no-match sentence.
CardNoCards ==
    [name |-> <<"Abra">>, id |-> <<"base1-43">>,
     attacks |-> << [name |-> <<"Search">>, damage |-> <<"0">>,
                     text |-> <<"No cards found", " ", "means", " ", "draw.">>] >>]

Cards == {CardFull, EmptyDict, CardError}

DataLists == SeqsUpTo(Cards, MaxCards) \cup {<<CardNoCards>>, <<CardFull, CardNoCards>>}

ErrorPayloads ==
    {[error |-> <<"Bad Request">>, message |-> <<"Invalid", " ", "query">>],
     [error |-> <<"Bad Request">>],
     [error |-> <<"Partial">>, message |-> <<"Truncated">>, data |-> <<CardFull>>]}

Payloads == {[data |-> d] : d \in DataLists} \cup {EmptyDict} \cup ErrorPayloads

NetworkOutcomes ==
    {[raised |-> "ConnectError", message |-> <<"All connection attempts failed">>],
     [raised |-> "ReadTimeout", message |-> <<>>],
     [raised |-> "InvalidURL", message |-> <<"Invalid", " ", "URL">>]}
    \cup {[status_code |-> c, text |-> [html |-> TRUE]] : c \in {200, 404, 429, 500}}
    \cup {[status_code |-> 200, text |-> [array |-> TRUE]]}
    \cup {[status_code |-> 200, text |-> [json |-> p]] : p \in Payloads}

\* What model.generate does: it raises, or returns the new token ids.
EngineOutputs ==
    {<<TOK_NAME, TOK_COLON, TOK_PIKACHU, EOS>>,
     <<TOK_NL, TOK_SP, TOK_NAME, TOK_COLON, TOK_PIKACHU, TOK_NL, TOK_NAME, TOK_SP, EOS>>,
     <<TOK_NAME, THINK_END, TOK_NL, TOK_NL, TOK_PIKACHU, EOS>>,
     <<TOK_NL, TOK_SP, EOS>>}

EngineOutcomes == {[ids |-> o] : o \in EngineOutputs} \cup {[raised |-> "RuntimeError"]}

DemoTables ==
    {<<>>,
     <<[key |-> <<"charizard">>, value |-> [data |-> <<EmptyDict>>]],
       [key |-> <<"pikachu">>, value |-> [data |-> <<CardFull, CardError>>]]>>}

Questions == {<<"What's", " ", "Pikachu's", " ", "type?">>}

RequestHistories ==
    {<<>>,
     <<[role |-> "user", content |-> <<"hi">>],
       [role |-> "assistant", content |-> <<"Hello", "\n", "there">>]>>}

\* model_manager = ModelManager() at the import of the module (line 123).
ManagerImported ==
    /\ _instance = Some(1) /\ _initialized = TRUE /\ objects = 1
    /\ last_new = Some(1) /\ lifecycle = <<>>

\* ModelManager.is_loaded
is_loaded == model # None /\ tokenizer # None

\* The handler of the single request of Spec has not started.
HandlerIdle ==
    /\ pc = "start"
    /\ message = <<>> /\ conversation_history = <<>>
    /\ api_query = None /\ api_response_raw = None
    /\ api_response_formatted = None /\ answer = None /\ response = None
    /\ stages = <<>> /\ engine_calls = <<>> /\ engine_returns = <<>>
    /\ search_calls = <<>> /\ requests_sent = 0 /\ network_outcome = None

\* No request is being handled.
RequestIdle ==
    /\ demo_mode = FALSE /\ demo_data = <<>>
    /\ pc = "start"
    /\ message = <<>> /\ conversation_history = <<>>
    /\ api_query = None /\ api_response_raw = None
    /\ api_response_formatted = None /\ answer = None /\ response = None
    /\ stages = <<>> /\ engine_calls = <<>> /\ engine_returns = <<>>
    /\ search_calls = <<>> /\ requests_sent = 0 /\ network_outcome = None

PipeIdle ==
    /\ tokenizer = None /\ model = None
    /\ ManagerImported
    /\ RequestIdle

(***************************************************************************)
(* Spec: one chat request through the pipeline.                            *)
(***************************************************************************)
Init ==
    /\ tokenizer = None /\ model = None
    /\ ManagerImported
    /\ demo_mode \in BOOLEAN
    /\ demo_data \in (IF demo_mode THEN DemoTables ELSE {<<>>})
    /\ pc = "start"
    /\ message \in Questions
    /\ conversation_history \in RequestHistories
    /\ api_query = None /\ api_response_raw = None
    /\ api_response_formatted = None /\ answer = None /\ response = None
    /\ stages = <<>> /\ engine_calls = <<>> /\ engine_returns = <<>>
    /\ search_calls = <<>> /\ requests_sent = 0 /\ network_outcome = None
    /\ SplitIdle /\ HistIdle /\ FormatIdle /\ OuterIdle

\* ModelManager.load_model: nothing is done when the model is loaded;
\* otherwise the tokenizer, then the model are loaded, and from_pretrained
\* may raise for either.
load_model ==
    IF model # None
    THEN UNCHANGED <<tokenizer, model>>
    ELSE \E loaded \in 0..2 :
            /\ tokenizer' = IF loaded >= 1 THEN Some("tokenizer") ELSE tokenizer
            /\ model' = IF loaded = 2 THEN Some("model") ELSE model

\* lifespan (main.py): model_manager.load_model() before requests are served.
lifespan ==
    /\ pc = "start"
    /\ load_model
    /\ UNCHANGED <<managerVars, splitVars, histVars, outerVars, formatVars, serviceVars, requestVars, chatVars>>

\* The except clause of chat: any exception becomes HTTPException(500).
Fail ==
    /\ response' = Some(HTTPException500)
    /\ pc' = "done"

\* ModelManager.generate_response as chat's two stages call it: the call is
\* recorded; it raises when nothing is loaded or when the engine raises,
\* and returns (thinking_content, content) otherwise.
EngineCall(prompt, enable_thinking, max_new_tokens) ==
    [prompt |-> prompt, enable_thinking |-> enable_thinking,
     max_new_tokens |-> max_new_tokens]

\* Mutant: the loaded test of lines 71-72 is left out.
EngineReturnsUnchecked(outcome, max_new_tokens) ==
    /\ "ids" \in DOMAIN outcome
    /\ Len(outcome.ids) <= max_new_tokens

EngineReturns(outcome, max_new_tokens) ==
    /\ model # None /\ tokenizer # None
    /\ "ids" \in DOMAIN outcome
    /\ Len(outcome.ids) <= max_new_tokens

\* LLMService.generate_api_query as chat calls it at line 25, the engine
\* doing one of the outcomes.
generate_api_query(outcomes) ==
    /\ pc = "start"
    /\ stages' = Append(stages, "QueryGeneration")
    /\ engine_calls' = Append(engine_calls,
            EngineCall(get_query_generation_prompt(message), FALSE, QUERY_MAX_NEW_TOKENS))
    /\ \E outcome \in outcomes :
          IF EngineReturns(outcome, QUERY_MAX_NEW_TOKENS)
          THEN /\ engine_returns' = Append(engine_returns, generate_response(outcome.ids))
               /\ api_query' = Some(CleanQuery(generate_response(outcome.ids).content))
               /\ pc' = "search"
               /\ UNCHANGED response
          ELSE /\ engine_returns' = Append(engine_returns, [raised |-> "RuntimeError"])
               /\ Fail
               /\ UNCHANGED api_query
    /\ UNCHANGED <<splitVars, histVars, outerVars, formatVars, engineVars, managerVars, serviceVars,
                   requestVars,
                   api_response_raw, api_response_formatted, answer,
                   search_calls, requests_sent, network_outcome>>

\* chat, line 25: stage 1.
QueryGeneration == generate_api_query(EngineOutcomes)

\* Mutant: the page numbering starts at 0.
SearchArgsPageZero(query) == [query |-> query, page_size |-> PAGE_SIZE, page |-> 0]

\* PokemonService.search_cards, line 95: api_client.search_cards(query), with
\* the defaults page_size=10 and page=1 of its signature.
SearchArgs(query) == [query |-> query, page_size |-> PAGE_SIZE, page |-> PAGE]

\* chat, line 31: PokemonService.search_cards.  In demo mode the table
\* answers at once; otherwise PokemonTCGAPIClient.search_cards is called
\* with its default page size and page, and awaits the network.
Search ==
    /\ pc = "search"
    /\ stages' = Append(stages, "Search")
    /\ IF demo_mode
       THEN /\ api_response_raw' = Some(_search_in_demo_data(demo_data, api_query[1]))
            /\ pc' = "format"
            /\ UNCHANGED <<search_calls, requests_sent>>
       ELSE /\ search_calls' = Append(search_calls, SearchArgs(api_query[1]))
            /\ requests_sent' = requests_sent + 1
            /\ pc' = "awaiting"
            /\ UNCHANGED api_response_raw
    /\ UNCHANGED <<splitVars, histVars, outerVars, formatVars, engineVars, managerVars, serviceVars,
                   requestVars,
                   api_query, api_response_formatted, answer, response, engine_calls,
                   engine_returns, network_outcome>>

\* Mutant: a failed request is issued again.
SearchReturnRetry ==
    /\ pc = "awaiting"
    /\ \E outcome \in NetworkOutcomes :
          LET result == search_cards(outcome)
          IN  /\ network_outcome' = Some(outcome)
              /\ IF "error" \in DOMAIN result.returned
                 THEN /\ pc' = "search"
                      /\ UNCHANGED api_response_raw
                 ELSE /\ api_response_raw' = Some(result.returned)
                      /\ pc' = "format"
    /\ UNCHANGED <<splitVars, histVars, outerVars, formatVars, engineVars, managerVars, serviceVars,
                   requestVars, api_query, api_response_formatted, answer, response,
                   stages, engine_calls, engine_returns, search_calls, requests_sent>>

\* PokemonTCGAPIClient.search_cards, lines 62-101: the request completes.
SearchReturn ==
    /\ pc = "awaiting"
    /\ \E outcome \in NetworkOutcomes :
          LET result == search_cards(outcome)
          IN  /\ network_outcome' = Some(outcome)
              /\ IF "returned" \in DOMAIN result
                 THEN /\ api_response_raw' = Some(result.returned)
                      /\ pc' = "format"
                      /\ UNCHANGED response
                 ELSE /\ Fail
                      /\ UNCHANGED api_response_raw
    /\ UNCHANGED <<splitVars, histVars, outerVars, formatVars, engineVars, managerVars, serviceVars,
                   requestVars,
                   api_query, api_response_formatted, answer, stages, engine_calls,
                   engine_returns, search_calls, requests_sent>>

\* chat, lines 32-44: format_cards_for_llm and the no-results return.
Format ==
    /\ pc = "format"
    /\ LET formatted == format_cards_for_llm(api_response_raw[1])
       IN  /\ api_response_formatted' = Some(formatted)
           /\ IF NoResultsCheck(formatted)
              THEN /\ response' = Some(ChatResponse(ApologyMessage, <<>>, api_query[1]))
                   /\ stages' = stages \o <<"Format", "NoResults">>
                   /\ pc' = "done"
              ELSE /\ stages' = Append(stages, "Format")
                   /\ pc' = "answer"
                   /\ UNCHANGED response
    /\ UNCHANGED <<splitVars, histVars, outerVars, formatVars, engineVars, managerVars, serviceVars,
                   requestVars,
                   api_query, api_response_raw, answer, engine_calls,
                   engine_returns, search_calls, requests_sent, network_outcome>>

\* chat, lines 47-51: stage 2, LLMService.generate_answer.
AnswerGeneration ==
    /\ pc = "answer"
    /\ stages' = Append(stages, "AnswerGeneration")
    /\ engine_calls' = Append(engine_calls,
            EngineCall(AnswerPrompt(message, api_response_formatted[1],
                                    conversation_history),
                       TRUE, ANSWER_MAX_NEW_TOKENS))
    /\ \E outcome \in EngineOutcomes :
          IF EngineReturns(outcome, ANSWER_MAX_NEW_TOKENS)
          THEN /\ engine_returns' = Append(engine_returns, generate_response(outcome.ids))
               /\ answer' = Some(Strip(generate_response(outcome.ids).content))
               /\ pc' = "assemble"
               /\ UNCHANGED response
          ELSE /\ engine_returns' = Append(engine_returns, [raised |-> "RuntimeError"])
               /\ Fail
               /\ UNCHANGED answer
    /\ UNCHANGED <<splitVars, histVars, outerVars, formatVars, engineVars, managerVars, serviceVars,
                   requestVars,
                   api_query, api_response_raw, api_response_formatted,
                   search_calls, requests_sent, network_outcome>>

\* chat, lines 54-60: extract_card_info and the ChatResponse.
Assemble ==
    /\ pc = "assemble"
    /\ stages' = Append(stages, "Assemble")
    /\ response' = Some(ChatResponse(answer[1], extract_card_info(api_response_raw[1]),
                                     api_query[1]))
    /\ pc' = "done"
    /\ UNCHANGED <<splitVars, histVars, outerVars, formatVars, engineVars, managerVars, serviceVars,
                   requestVars,
                   api_query, api_response_raw, api_response_formatted, answer,
                   engine_calls, engine_returns, search_calls, requests_sent,
                   network_outcome>>

Next ==
    \/ lifespan
    \/ QueryGeneration
    \/ Search
    \/ SearchReturn
    \/ Format
    \/ AnswerGeneration
    \/ Assemble

Spec == Init /\ [][Next]_vars

(***************************************************************************)
(* SpecSplit: generate_response on every token stream of the bounds.       *)
(***************************************************************************)
SplitAlphabet == {THINK_END, TOK_NAME}

SplitStreams == SeqsUpTo(SplitAlphabet, MaxTokens) \cup SeqsUpTo(Vocabulary, MaxShort)

SplitInit ==
    /\ output_ids \in SplitStreams
    /\ gen = <<>>
    /\ HistIdle /\ FormatIdle /\ PipeIdle /\ OuterIdle

SplitCall ==
    /\ gen = <<>>
    /\ gen' = <<generate_response(output_ids)>>
    /\ UNCHANGED <<output_ids, histVars, outerVars, formatVars, pipeVars>>

SplitNext == SplitCall

SpecSplit == SplitInit /\ [][SplitNext]_vars

(***************************************************************************)
(* SpecHist: the history windowing of generate_answer on every history of  *)
(* the bounds.                                                             *)
(***************************************************************************)
HistContents == {<<"hi">>, <<"HP", ":", " ", "60", "\n", "Type", ":", " ", "Lightning">>}

HistMessages == [role : {"user", "assistant"}, content : HistContents]

SampleQuestion == <<"What's", " ", "Pikachu's", " ", "type?">>

SampleDisplayText == <<"Card", ":", " ", "Pikachu">>

HistInit ==
    /\ hist_in \in SeqsUpTo(HistMessages, MaxHistory)
    /\ hist_out = <<>>
    /\ SplitIdle /\ FormatIdle /\ PipeIdle /\ OuterIdle

HistCall ==
    /\ hist_out = <<>>
    /\ hist_out' = <<[history_text |-> HistoryText(hist_in),
                      prompt |-> AnswerPrompt(SampleQuestion, SampleDisplayText, hist_in)]>>
    /\ UNCHANGED <<hist_in, splitVars, outerVars, formatVars, pipeVars>>

HistNext == HistCall

SpecHist == HistInit /\ [][HistNext]_vars


(***************************************************************************)
(* SpecEngine: the life of the engine under any calls of ModelManager(),   *)
(* load_model() and generate_response(), from before the import of the     *)
(* module.                                                                 *)
(***************************************************************************)
EngineInit ==
    /\ tokenizer = None /\ model = None
    /\ _instance = None /\ _initialized = FALSE /\ objects = 0
    /\ last_new = None /\ lifecycle = <<>>
    /\ RequestIdle /\ SplitIdle /\ HistIdle /\ FormatIdle /\ OuterIdle

\* ModelManager(): __new__, then __init__ on the instance it yields.
NewModelManager ==
    /\ Len(lifecycle) < MaxLifecycle
    /\ LET new == __new__(_instance, objects)
           init == __init__(_initialized, tokenizer, model)
       IN  /\ _instance' = new.instance
           /\ objects' = new.objects
           /\ last_new' = new.instance
           /\ tokenizer' = init.tokenizer
           /\ model' = init.model
           /\ _initialized' = TRUE
    /\ lifecycle' = Append(lifecycle, "ModelManager")
    /\ UNCHANGED <<splitVars, histVars, outerVars, formatVars, serviceVars, requestVars, chatVars>>

\* model_manager.load_model()
EngineLoad ==
    /\ Len(lifecycle) < MaxLifecycle
    /\ _instance # None
    /\ load_model
    /\ lifecycle' = Append(lifecycle, IF model # None THEN "Model already loaded."
                                                     ELSE "load_model")
    /\ UNCHANGED <<_instance, _initialized, objects, last_new>>
    /\ UNCHANGED <<splitVars, histVars, outerVars, formatVars, serviceVars, requestVars, chatVars>>

\* model_manager.generate_response(...): it raises when nothing is loaded,
\* and in no case assigns the handles.
EngineGenerate ==
    /\ Len(lifecycle) < MaxLifecycle
    /\ _instance # None
    /\ lifecycle' = Append(lifecycle, IF is_loaded THEN "generate_response"
                                                   ELSE "Model not loaded.")
    /\ UNCHANGED <<engineVars, _instance, _initialized, objects, last_new>>
    /\ UNCHANGED <<splitVars, histVars, outerVars, formatVars, serviceVars, requestVars, chatVars>>

EngineNext ==
    \/ NewModelManager
    \/ EngineLoad
    \/ EngineGenerate

SpecEngine == EngineInit /\ [][EngineNext]_vars

(***************************************************************************)
(* SpecFormat: format_cards_for_llm and extract_card_info on every result  *)
(* the search can hand them: what search_cards returns for each outcome of *)
(* the request, the empty result of the demo table, and records that lack  *)
(* fields.                                                                 *)
(***************************************************************************)
\* A record with every field the formatter reads.
CardComplete ==
    [name |-> <<"Charizard">>, id |-> <<"base1-4">>, supertype |-> <<"Pokemon">>,
     subtypes |-> << <<"Stage 2">> >>, hp |-> <<"120">>,
     types |-> << <<"Fire">> >>,
     weaknesses |-> << [type |-> <<"Water">>, value |-> <<"x2">>] >>,
     resistances |-> << [type |-> <<"Fighting">>, value |-> <<"-30">>] >>,
     retreatCost |-> << <<"Colorless">>, <<"Colorless">>, <<"Colorless">> >>,
     set |-> [name |-> <<"Base">>], rarity |-> <<"Rare Holo">>,
     images |-> [small |-> <<"https://images/base1/4.png">>],
     abilities |-> << [name |-> <<"Energy Burn">>, text |-> <<"Turn", " ", "all.">>] >>,
     attacks |-> << [name |-> <<"Fire Spin">>, cost |-> << <<"Fire">>, <<"Fire">> >>,
                     damage |-> <<"100">>, text |-> <<"Discard.">>] >>]

CardFields == DOMAIN CardComplete

Restrict(d, keys) == [k \in keys |-> d[k]]

\* Records that lack one field, that have one field only, and records whose
\* set or images object is empty.
PartialCards ==
    {Restrict(CardComplete, CardFields \ {f}) : f \in CardFields}
    \cup {Restrict(CardComplete, {f}) : f \in CardFields}
    \cup {CardComplete, EmptyDict,
          [name |-> <<"Mew">>, set |-> EmptyDict, images |-> EmptyDict]}

FormatInputs ==
    {search_cards(o).returned : o \in NetworkOutcomes}
    \cup {[data |-> <<>>, count |-> 0]}
    \cup {[data |-> <<c>>] : c \in PartialCards}

FormatInit ==
    /\ fmt_in \in {Some(p) : p \in FormatInputs}
    /\ fmt_out = None
    /\ SplitIdle /\ HistIdle /\ PipeIdle /\ OuterIdle

\* chat, lines 32-34 and 54: the two readings of one api_response_raw.
FormatCall ==
    /\ fmt_out = None
    /\ fmt_out' = Some([text |-> format_cards_for_llm(fmt_in[1]),
                        cards |-> extract_card_info(fmt_in[1])])
    /\ UNCHANGED <<fmt_in, splitVars, histVars, outerVars, pipeVars>>

FormatNext == FormatCall

SpecFormat == FormatInit /\ [][FormatNext]_vars

(***************************************************************************)
(* SpecQuery: a request whose stage-1 engine output is any token stream of *)
(* the bounds, served from the demo table or up to the call of the search  *)
(* executor.                                                               *)
(***************************************************************************)
QueryAlphabet == {TOK_NL, TOK_SP, TOK_NAME, TOK_PIKACHU}

QueryStreams == SeqsUpTo(QueryAlphabet, MaxShort)

\* Tables whose keys are in another letter case than the query, or hold
\* the query, besides the tables of Spec.
DemoTablesWide ==
    DemoTables \cup
    {<<[key |-> <<"pikachu">>, value |-> [data |-> <<CardFull>>, count |-> 1]]>>,
     <<[key |-> <<"name">>, value |-> [data |-> <<CardComplete>>]],
       [key |-> <<"pikachu">>, value |-> [data |-> <<CardFull>>, count |-> 1]]>>,
     <<[key |-> <<"Pikachu">>, value |-> [data |-> <<CardFull>>, count |-> 1]]>>,
     <<[key |-> <<"pikachu", " ", "name">>, value |-> [data |-> <<CardComplete>>]],
       [key |-> <<"pikachu">>, value |-> [data |-> <<CardFull>>, count |-> 1]]>>}

QueryInit ==
    /\ tokenizer = Some("tokenizer") /\ model = Some("model")
    /\ ManagerImported
    /\ demo_mode \in BOOLEAN
    /\ demo_data \in (IF demo_mode THEN DemoTablesWide ELSE {<<>>})
    /\ pc = "start"
    /\ message \in Questions
    /\ conversation_history = <<>>
    /\ api_query = None /\ api_response_raw = None
    /\ api_response_formatted = None /\ answer = None /\ response = None
    /\ stages = <<>> /\ engine_calls = <<>> /\ engine_returns = <<>>
    /\ search_calls = <<>> /\ requests_sent = 0 /\ network_outcome = None
    /\ output_ids \in QueryStreams
    /\ gen = <<>>
    /\ HistIdle /\ FormatIdle /\ OuterIdle

\* Stage 1 with the engine returning output_ids.
QueryStage == generate_api_query({[ids |-> output_ids]})

QueryNext ==
    \/ QueryStage
    \/ Search
    \/ Format
    \/ AnswerGeneration
    \/ Assemble

SpecQuery == QueryInit /\ [][QueryNext]_vars

(***************************************************************************)
(* SpecLoop: several chat requests served by one event loop.  A task runs  *)
(* until it suspends or ends; a step of a task is the code between two of  *)
(* the positions below, and needs the loop.                                *)
(***************************************************************************)
Requests == 1..MaxRequests

\* Mutant: generate_response is awaited in a thread (run_in_executor).
SuspensionPointsEngineInThread == {"awaiting", "in_stage1", "in_stage2"}

\* The positions of chat at which the coroutine suspends: the await of
\* client.get in search_cards.  generate_api_query and generate_answer
\* call generate_response without an await, and the awaits of chat on them
\* run them at once.
SuspensionPoints == {"awaiting"}

\* The task gives the loop back when it suspends or ends.
Release(position) == position \in SuspensionPoints \cup {"done"}

NewTask ==
    [pc |-> "new", api_query |-> None, api_response_raw |-> None,
     answer |-> None, response |-> None]

LoopEngineOutcomes ==
    {[ids |-> <<TOK_NAME, TOK_COLON, TOK_PIKACHU, EOS>>], [raised |-> "RuntimeError"]}

LoopNetworkOutcomes ==
    {[status_code |-> 429, text |-> [html |-> TRUE]],
     [status_code |-> 200, text |-> [json |-> [data |-> <<CardFull>>]]]}

LoopInit ==
    /\ tasks = [r \in Requests |-> NewTask]
    /\ running = None
    /\ in_engine = {}
    /\ tokenizer = Some("tokenizer")
    /\ model \in {None, Some("model")}
    /\ ManagerImported
    /\ demo_mode \in BOOLEAN
    /\ demo_data \in (IF demo_mode THEN DemoTables ELSE {<<>>})
    /\ HandlerIdle
    /\ SplitIdle /\ HistIdle /\ FormatIdle /\ SessionIdle

\* The frame of a step of the loop.
LoopFrame ==
    UNCHANGED <<splitVars, histVars, formatVars, sessionVars, engineVars,
                managerVars, serviceVars, requestVars, chatVars>>

\* The task of request r goes on as t.
Continue(r, t) ==
    /\ tasks' = [tasks EXCEPT ![r] = t]
    /\ running' = IF Release(t.pc) THEN None ELSE Some(r)

\* The loop is free and runs a task that can run: a new request, a task
\* whose network response arrived, a task suspended elsewhere.
Dispatch(r) ==
    /\ running = None
    /\ tasks[r].pc \in {"new", "arrived"} \cup (SuspensionPoints \ {"awaiting"})
    /\ tasks' = [tasks EXCEPT ![r].pc =
                    CASE tasks[r].pc = "new" -> "stage1"
                      [] tasks[r].pc = "arrived" -> "format"
                      [] OTHER -> tasks[r].pc]
    /\ running' = Some(r)
    /\ UNCHANGED in_engine
    /\ LoopFrame

\* chat, lines 25 and 47: generate_response is entered.
EngineEnter(r) ==
    /\ running = Some(r)
    /\ tasks[r].pc \in {"stage1", "stage2"}
    /\ in_engine' = in_engine \cup {r}
    /\ Continue(r, [tasks[r] EXCEPT !.pc = IF tasks[r].pc = "stage1"
                                           THEN "in_stage1" ELSE "in_stage2"])
    /\ LoopFrame

\* generate_response returns or raises.
EngineExit(r) ==
    /\ running = Some(r)
    /\ tasks[r].pc \in {"in_stage1", "in_stage2"}
    /\ in_engine' = in_engine \ {r}
    /\ \E outcome \in LoopEngineOutcomes :
          LET max_new_tokens == IF tasks[r].pc = "in_stage1" THEN QUERY_MAX_NEW_TOKENS
                                ELSE ANSWER_MAX_NEW_TOKENS
          IN  IF ~EngineReturns(outcome, max_new_tokens)
              THEN Continue(r, [tasks[r] EXCEPT !.pc = "done",
                                                !.response = Some(HTTPException500)])
              ELSE IF tasks[r].pc = "in_stage1"
              THEN Continue(r, [tasks[r] EXCEPT
                       !.pc = "search",
                       !.api_query =
                           Some(CleanQuery(generate_response(outcome.ids).content))])
              ELSE Continue(r, [tasks[r] EXCEPT
                       !.pc = "assemble",
                       !.answer = Some(Strip(generate_response(outcome.ids).content))])
    /\ LoopFrame

\* chat, line 31: the demo table answers at once, the network is awaited.
LoopSearch(r) ==
    /\ running = Some(r)
    /\ tasks[r].pc = "search"
    /\ IF demo_mode
       THEN Continue(r, [tasks[r] EXCEPT
                !.pc = "format",
                !.api_response_raw =
                    Some(_search_in_demo_data(demo_data, tasks[r].api_query[1]))])
       ELSE Continue(r, [tasks[r] EXCEPT !.pc = "awaiting"])
    /\ UNCHANGED in_engine
    /\ LoopFrame

\* The network request of a suspended task completes, whoever runs.
Arrive(r) ==
    /\ tasks[r].pc = "awaiting"
    /\ \E outcome \in LoopNetworkOutcomes :
          tasks' = [tasks EXCEPT ![r].pc = "arrived",
                                 ![r].api_response_raw =
                                     Some(search_cards(outcome).returned)]
    /\ UNCHANGED <<running, in_engine>>
    /\ LoopFrame

\* chat, lines 32-44.
LoopFormat(r) ==
    /\ running = Some(r)
    /\ tasks[r].pc = "format"
    /\ IF NoResultsCheck(format_cards_for_llm(tasks[r].api_response_raw[1]))
       THEN Continue(r, [tasks[r] EXCEPT
                !.pc = "done",
                !.response = Some(ChatResponse(ApologyMessage, <<>>,
                                               tasks[r].api_query[1]))])
       ELSE Continue(r, [tasks[r] EXCEPT !.pc = "stage2"])
    /\ UNCHANGED in_engine
    /\ LoopFrame

\* chat, lines 54-60.
LoopAssemble(r) ==
    /\ running = Some(r)
    /\ tasks[r].pc = "assemble"
    /\ Continue(r, [tasks[r] EXCEPT
           !.pc = "done",
           !.response = Some(ChatResponse(tasks[r].answer[1],
                                          extract_card_info(tasks[r].api_response_raw[1]),
                                          tasks[r].api_query[1]))])
    /\ UNCHANGED in_engine
    /\ LoopFrame

LoopNext ==
    \E r \in Requests :
        \/ Dispatch(r)
        \/ EngineEnter(r)
        \/ EngineExit(r)
        \/ LoopSearch(r)
        \/ Arrive(r)
        \/ LoopFormat(r)
        \/ LoopAssemble(r)

SpecLoop == LoopInit /\ [][LoopNext]_vars

(***************************************************************************)
(* SpecSession: the session state of the frontend (frontend/app.py) under  *)
(* any prompts, backend answers and Clear Conversation clicks.  Every      *)
(* interaction runs main again; an interaction made while the backend call *)
(* is pending ends the pending run at its next Streamlit command, before   *)
(* it assigns anything.                                                    *)
(***************************************************************************)
Prompts == Questions \cup {<<"hi">>}

\* What response.json() is for a 200 of the backend.
BackendResponses ==
    {ChatResponse(ApologyMessage, <<>>, <<"name", ":", "Pikachu">>),
     ChatResponse(<<"Pikachu", " ", "is", " ", "Lightning.">>, <<CardInfo(CardFull)>>,
                  <<"name", ":", "Pikachu">>)}

ErrorMessage == <<"Sorry, I encountered an error. Please try again.">>

SessionInit ==
    /\ SessionIdle
    /\ LoopIdle /\ SplitIdle /\ HistIdle /\ FormatIdle /\ PipeIdle

SessionFrame == UNCHANGED <<splitVars, histVars, formatVars, loopVars, pipeVars>>

\* Mutant: the prompt is put into conversation_history before the call.
SubmitHistoryFirst(prompt) ==
    /\ submissions < MaxSubmissions
    /\ session_messages' =
           Append(session_messages, [role |-> "user", content |-> prompt])
    /\ session_conversation_history' =
           Append(session_conversation_history, [role |-> "user", content |-> prompt])
    /\ sent' = Some([message |-> prompt, history |-> session_conversation_history'])
    /\ script' = "waiting"
    /\ submissions' = submissions + 1
    /\ SessionFrame

\* main, lines 187-200: a prompt is entered; it is appended to messages and
\* sent with the conversation_history of the session.
Submit(prompt) ==
    /\ submissions < MaxSubmissions
    /\ session_messages' =
           Append(session_messages, [role |-> "user", content |-> prompt])
    /\ sent' = Some([message |-> prompt, history |-> session_conversation_history])
    /\ script' = "waiting"
    /\ submissions' = submissions + 1
    /\ UNCHANGED session_conversation_history
    /\ SessionFrame

\* main, lines 202-227: send_message_to_backend returned the response.
BackendResponds(backend_response) ==
    /\ script = "waiting"
    /\ session_conversation_history' =
           session_conversation_history \o
               <<[role |-> "user", content |-> sent[1].message],
                 [role |-> "assistant", content |-> backend_response.response]>>
    /\ session_messages' =
           Append(session_messages,
                  [role |-> "assistant", content |-> backend_response.response,
                   cards |-> backend_response.cards])
    /\ script' = "idle"
    /\ UNCHANGED <<sent, submissions>>
    /\ SessionFrame

\* main, lines 228-234: send_message_to_backend returned None (a failure
\* status, a timeout, no connection).
BackendFails ==
    /\ script = "waiting"
    /\ session_messages' =
           Append(session_messages, [role |-> "assistant", content |-> ErrorMessage])
    /\ script' = "idle"
    /\ UNCHANGED <<session_conversation_history, sent, submissions>>
    /\ SessionFrame

\* main, lines 150-153: Clear Conversation.
ClearConversation ==
    /\ session_messages' = <<>>
    /\ session_conversation_history' = <<>>
    /\ script' = "idle"
    /\ UNCHANGED <<sent, submissions>>
    /\ SessionFrame

SessionNext ==
    \/ \E prompt \in Prompts : Submit(prompt)
    \/ \E backend_response \in BackendResponses : BackendResponds(backend_response)
    \/ BackendFails
    \/ ClearConversation

SpecSession == SessionInit /\ [][SessionNext]_vars

(***************************************************************************)
(* Helpers of the properties.                                              *)
(***************************************************************************)
Range(seq) == {seq[i] : i \in 1..Len(seq)}

IsPrefix(s, t) == Len(s) <= Len(t) /\ SubSeq(t, 1, Len(s)) = s

\* text.split(sep)
RECURSIVE SplitOn(_, _)
SplitOn(text, sep) ==
    LET hits == {i \in 1..(Len(text) - Len(sep) + 1) :
                    SubSeq(text, i, i + Len(sep) - 1) = sep}
    IN  IF hits = {} THEN <<text>>
        ELSE <<SubSeq(text, 1, SetMin(hits) - 1)>>
             \o SplitOn(SubSeq(text, SetMin(hits) + Len(sep), Len(text)), sep)

Smaller(a, b) == IF a < b THEN a ELSE b

ShortCircuitRun == <<"QueryGeneration", "Search", "Format", "NoResults">>

FullRun == <<"QueryGeneration", "Search", "Format", "AnswerGeneration", "Assemble">>

Returned == pc = "done" /\ response # None /\ response[1].kind = "ChatResponse"

\* The formatter's signal as the specification states it: the no-match
\* sentence, or a text that begins with "Error:".
FormatSignalsNoResults ==
    /\ api_response_formatted # None
    /\ \/ api_response_formatted[1] = NoCardsFound
       \/ StartsWith(api_response_formatted[1], ErrorPrefix)

\* A payload that is a record list with at least one record.
HasRecords(payload) ==
    /\ "error" \notin DOMAIN payload
    /\ "data" \in DOMAIN payload
    /\ Len(payload.data) >= 1

\* A payload of a query that matched nothing.
NoRecords(payload) ==
    /\ "error" \notin DOMAIN payload
    /\ "data" \notin DOMAIN payload \/ Len(payload.data) = 0

\* The test of test_chat_endpoint_no_results.
HasClarification(text) ==
    \/ Contains(Lower(text), <<"rephrase">>)
    \/ Contains(Lower(text), <<"couldn't find">>)

(***************************************************************************)
(* C1.  The stages of a request run in the order QueryGeneration, Search,  *)
(* Format, then either the no-results return or AnswerGeneration and       *)
(* Assemble; a stage starts only when the previous one has produced its    *)
(* result, none is entered twice, and the search executor is called with   *)
(* the stage-1 query, page size 10 and page 1.                             *)
(***************************************************************************)
C1_StageOrder ==
    /\ IsPrefix(stages, ShortCircuitRun) \/ IsPrefix(stages, FullRun)
    /\ "Search" \in Range(stages) => api_query # None /\ Len(engine_returns) >= 1
    /\ "Format" \in Range(stages) =>
           /\ api_response_raw # None
           /\ ~demo_mode => network_outcome # None
    /\ "AnswerGeneration" \in Range(stages) => api_response_formatted # None
    /\ "Assemble" \in Range(stages) => answer # None /\ Len(engine_returns) = 2
    /\ \A i \in 1..Len(search_calls) :
           search_calls[i] = [query |-> api_query[1], page_size |-> 10, page |-> 1]
    /\ (~demo_mode /\ "Search" \in Range(stages)) => Len(search_calls) = 1

C1_Witness ==
    /\ pc = "done"
    /\ stages = FullRun
    /\ search_calls = <<[query |-> api_query[1], page_size |-> 10, page |-> 1]>>

(***************************************************************************)
(* C2.  When the formatter signals "no results", the request has ended     *)
(* with the fixed apology message, no cards and queryUsed equal to the     *)
(* stage-1 query, and the engine was invoked once, for stage 1 only.       *)
(***************************************************************************)
C2_NoResultsShortCircuit ==
    FormatSignalsNoResults =>
        /\ pc = "done"
        /\ response = Some([kind |-> "ChatResponse", response |-> ApologyMessage,
                            cards |-> <<>>, query_used |-> api_query[1]])
        /\ stages = ShortCircuitRun
        /\ Len(engine_calls) = 1
        /\ engine_calls[1].prompt.template = "QUERY_GENERATION_PROMPT"

C2_Witness ==
    /\ FormatSignalsNoResults
    /\ api_response_formatted[1] = NoCardsFound
    /\ pc = "done"

(***************************************************************************)
(* C3.  The no-results return is taken if and only if the DisplayText is   *)
(* the no-match sentence or begins with "Error:"; a payload with at least  *)
(* one record never takes it.                                              *)
(***************************************************************************)
C3_ShortCircuitIff ==
    api_response_formatted # None =>
        /\ "NoResults" \in Range(stages) <=> FormatSignalsNoResults
        /\ HasRecords(api_response_raw[1]) => "NoResults" \notin Range(stages)

(***************************************************************************)
(* C4.  As claimed: when the search matched no records, the request        *)
(* returns a text with a clarification phrase, no cards and a non-empty    *)
(* queryUsed, whatever the stage-1 engine output was.                      *)
(***************************************************************************)
C4_NonEmptyQueryUsed ==
    (pc = "done" /\ api_response_raw # None /\ NoRecords(api_response_raw[1])) =>
        /\ Returned
        /\ HasClarification(response[1].response)
        /\ response[1].cards = <<>>
        /\ response[1].query_used # <<>>

(***************************************************************************)
(* C4, amended.  When the search matched no records, the request returns   *)
(* a text with a clarification phrase, no cards, and as queryUsed the      *)
(* stage-1 query, which is non-empty exactly when the engine's stage-1     *)
(* content holds something other than whitespace.                          *)
(***************************************************************************)
C4_QueryUsedIsStage1Query ==
    (pc = "done" /\ api_response_raw # None /\ NoRecords(api_response_raw[1])) =>
        /\ Returned
        /\ HasClarification(response[1].response)
        /\ response[1].cards = <<>>
        /\ response[1].query_used = api_query[1]
        /\ response[1].query_used # <<>> <=>
               \E i \in 1..Len(engine_returns[1].content) :
                   engine_returns[1].content[i] \notin {" ", "\n", "\t"}

C4_Witness ==
    /\ pc = "done" /\ api_response_raw # None /\ NoRecords(api_response_raw[1])
    /\ Returned
    /\ response[1].query_used = <<"name", ":", "Pikachu">>

(***************************************************************************)
(* C5.  In every answer returned after stage 2, the card list and the      *)
(* card blocks of the DisplayText given to stage 2 have the same number    *)
(* of entries, at most 5, and the i-th card and the i-th block are both    *)
(* made from the i-th record of the same payload; an answer returned       *)
(* without stage 2 has no cards and no DisplayText was given to stage 2.   *)
(***************************************************************************)
C5_CardsMatchBlocks ==
    Returned =>
        IF "Assemble" \in Range(stages)
        THEN /\ HasRecords(api_response_raw[1])
             /\ LET data == api_response_raw[1].data
                    n == Smaller(Len(data), 5)
                    blocks == SplitOn(engine_calls[2].prompt.api_response,
                                      BlockSeparator)
                    cards == response[1].cards
                IN  /\ Len(blocks) = n
                    /\ Len(cards) = n
                    /\ \A i \in 1..n :
                           /\ blocks[i] = CardBlock(data[i])
                           /\ cards[i] = CardInfo(data[i])
        ELSE /\ response[1].cards = <<>>
             /\ Len(engine_calls) = 1

C5_Witness ==
    /\ Returned
    /\ "Assemble" \in Range(stages)
    /\ Len(api_response_raw[1].data) > 5
    /\ Len(response[1].cards) = 5
    /\ api_response_raw[1].data[1] # api_response_raw[1].data[2]

(***************************************************************************)
(* C6.  For a payload with N >= 1 records, the returned card list has      *)
(* min(N, 5) entries, the first min(N, 5) records in source order.         *)
(***************************************************************************)
C6_CardCount ==
    (Returned /\ HasRecords(api_response_raw[1])) =>
        LET data == api_response_raw[1].data
            n == Smaller(Len(data), 5)
        IN  /\ Len(response[1].cards) = n
            /\ \A i \in 1..n : response[1].cards[i] = CardInfo(data[i])

(***************************************************************************)
(* C7.  As claimed: for a 12-token stream with the sentinel at positions   *)
(* 3 and 9 (0-indexed), the reasoning segment is tokens [0,9) and the      *)
(* content segment is tokens [9,12).                                       *)
(***************************************************************************)
\* The 0-indexed positions of the sentinel in a stream.
SentinelPositions(ids) == {i \in 0..(Len(ids) - 1) : ids[i + 1] = THINK_END}

\* Tokens [from, to) of a stream, 0-indexed.
Segment(ids, from, to) == SubSeq(ids, from + 1, to)

TwoSentinelStream ==
    /\ gen # <<>>
    /\ Len(output_ids) = 12
    /\ SentinelPositions(output_ids) = {3, 9}

C7_SplitAtLastSentinel ==
    TwoSentinelStream =>
        /\ gen[1].reasoning_ids = Segment(output_ids, 0, 9)
        /\ gen[1].content_ids = Segment(output_ids, 9, 12)

(***************************************************************************)
(* C7, amended.  The split is made just after the last occurrence of the   *)
(* sentinel, not the first: the reasoning segment runs through the last    *)
(* sentinel and the content segment starts after it.  For the 12-token     *)
(* stream with the sentinel at positions 3 and 9 the reasoning segment is  *)
(* tokens [0,10) and the content segment is tokens [10,12).                *)
(***************************************************************************)
C7_SplitAfterLastSentinel ==
    /\ (gen # <<>> /\ SentinelPositions(output_ids) # {}) =>
           LET last == SetMax(SentinelPositions(output_ids))
           IN  /\ gen[1].reasoning_ids = Segment(output_ids, 0, last + 1)
               /\ gen[1].content_ids = Segment(output_ids, last + 1, Len(output_ids))
               /\ THINK_END \notin Range(gen[1].content_ids)
    /\ TwoSentinelStream =>
           /\ gen[1].reasoning_ids = Segment(output_ids, 0, 10)
           /\ gen[1].content_ids = Segment(output_ids, 10, 12)

C7_Witness == TwoSentinelStream /\ gen[1].index = 10

(***************************************************************************)
(* C8.  When the sentinel does not occur in the output stream, the         *)
(* reasoning segment is empty and the content segment is the whole         *)
(* output: the content returned is the decoded output, its leading and     *)
(* trailing newlines stripped.                                             *)
(***************************************************************************)
C8_NoSentinelAllContent ==
    (gen # <<>> /\ SentinelPositions(output_ids) = {}) =>
        /\ gen[1].reasoning_ids = <<>>
        /\ gen[1].thinking_content = <<>>
        /\ gen[1].content_ids = output_ids
        /\ gen[1].content = StripSet(Decode(output_ids), {"\n"})

C8_Witness ==
    /\ gen # <<>>
    /\ output_ids = <<TOK_NAME, TOK_COLON, TOK_PIKACHU, EOS>>
    /\ gen[1].content = <<"name", ":", "Pikachu">>
    /\ gen[1].thinking_content = <<>>

(***************************************************************************)
(* C9.  As claimed: the windowed text holds the last min(L, 6) turns,      *)
(* oldest first, one line per turn, each line the turn's content prefixed  *)
(* "User: " or "Assistant: "; an empty history gives no text and the       *)
(* prompt without a history section.                                       *)
(***************************************************************************)
\* The entry of one turn: its prefix by role, then its content.
TurnEntry(msg) ==
    (IF msg.role = "user" THEN <<"User", ":", " ">> ELSE <<"Assistant", ":", " ">>)
        \o msg.content

\* The turns the window keeps: the last min(L, 6), oldest first.
WindowTurns(history) ==
    LET w == Smaller(Len(history), 6)
    IN  [i \in 1..w |-> history[Len(history) - w + i]]

EmptyHistoryCase ==
    /\ hist_out[1].history_text = None
    /\ hist_out[1].prompt.template = "ANSWER_GENERATION_PROMPT"
    /\ "conversation_history" \notin DOMAIN hist_out[1].prompt

C9_OneLinePerTurn ==
    hist_out # <<>> =>
        IF Len(hist_in) = 0 THEN EmptyHistoryCase
        ELSE /\ hist_out[1].history_text # None
             /\ LET turns == WindowTurns(hist_in)
                    lines == SplitOn(hist_out[1].history_text[1], <<"\n">>)
                IN  /\ Len(lines) = Len(turns)
                    /\ \A i \in 1..Len(turns) : lines[i] = TurnEntry(turns[i])

(***************************************************************************)
(* C9, amended.  The windowed text is the newline-join of one entry per    *)
(* turn for the last min(L, 6) turns, oldest first, each entry the turn's  *)
(* content prefixed "User: " or "Assistant: "; an entry is a single line   *)
(* only when the content holds no newline, so the text has one line per    *)
(* turn plus one per newline in the windowed contents.  An empty history   *)
(* gives no text and the prompt without a history section; any other       *)
(* history gives the prompt with the windowed text as its history section. *)
(***************************************************************************)
NewlinesIn(text) == Cardinality({i \in 1..Len(text) : text[i] = "\n"})

RECURSIVE SumNewlines(_)
SumNewlines(turns) ==
    IF Len(turns) = 0 THEN 0
    ELSE NewlinesIn(turns[1].content) + SumNewlines(Tail(turns))

C9_Windowing ==
    hist_out # <<>> =>
        IF Len(hist_in) = 0 THEN EmptyHistoryCase
        ELSE /\ hist_out[1].history_text # None
             /\ LET turns == WindowTurns(hist_in)
                    text == hist_out[1].history_text[1]
                    lines == SplitOn(text, <<"\n">>)
                IN  /\ text = JoinText([i \in 1..Len(turns) |-> TurnEntry(turns[i])],
                                       <<"\n">>)
                    /\ Len(lines) = Len(turns) + SumNewlines(turns)
                    /\ SumNewlines(turns) = 0 =>
                           \A i \in 1..Len(turns) : lines[i] = TurnEntry(turns[i])
                    /\ hist_out[1].prompt.template =
                           "ANSWER_GENERATION_WITH_HISTORY_PROMPT"
                    /\ hist_out[1].prompt.conversation_history = text

C9_Witness ==
    /\ hist_out # <<>>
    /\ Len(hist_in) = 7
    /\ hist_in[1].role = "user" /\ hist_in[2].role = "assistant"
    /\ \A i \in 1..7 : hist_in[i].content = <<"hi">>
    /\ Len(SplitOn(hist_out[1].history_text[1], <<"\n">>)) = 6

(***************************************************************************)
(* C10.  The search executor returns for every outcome of the network      *)
(* request, and a failed request is returned as an error of one of three   *)
(* kinds: a failure status as the HTTP error with the status code, a       *)
(* transport or timeout failure as the request error, anything else        *)
(* (another exception, a body that is not a JSON object) as the            *)
(* unexpected error.                                                       *)
(***************************************************************************)
StatusFailure(o) == "status_code" \in DOMAIN o /\ o.status_code >= 400

TransportFailure(o) == "raised" \in DOMAIN o /\ o.raised \in {"ConnectError", "ReadTimeout"}

OtherFailure(o) ==
    \/ "raised" \in DOMAIN o /\ o.raised \notin {"ConnectError", "ReadTimeout"}
    \/ "status_code" \in DOMAIN o /\ o.status_code < 400 /\ "json" \notin DOMAIN o.text

C10_SearchNeverRaises ==
    network_outcome # None =>
        LET o == network_outcome[1]
        IN  /\ api_response_raw # None
            /\ StatusFailure(o) =>
                   /\ "error" \in DOMAIN api_response_raw[1]
                   /\ api_response_raw[1].error =
                          <<"HTTP error occurred", ":", " ", ToString(o.status_code)>>
            /\ TransportFailure(o) =>
                   /\ "error" \in DOMAIN api_response_raw[1]
                   /\ api_response_raw[1].error = <<"Request error occurred">>
            /\ OtherFailure(o) =>
                   /\ "error" \in DOMAIN api_response_raw[1]
                   /\ api_response_raw[1].error = <<"Unexpected error occurred">>
            /\ ~(StatusFailure(o) \/ TransportFailure(o) \/ OtherFailure(o)) =>
                   api_response_raw[1] = o.text.json

C10_Witness ==
    /\ network_outcome # None
    /\ StatusFailure(network_outcome[1])
    /\ network_outcome[1].status_code = 429
    /\ api_response_raw = Some([error |-> <<"HTTP error occurred", ":", " ", "429">>,
                                message |-> <<"Client error", " ", "429">>,
                                response_text |-> <<"body">>])

(***************************************************************************)
(* C11.  A result returned by the search executor is a record list or an   *)
(* error, never both: no returned result has both the error key and a data *)
(* list, whatever the data source answered.                                *)
(***************************************************************************)
C11_ErrorOrRecords ==
    (network_outcome # None /\ api_response_raw # None) =>
        ~("error" \in DOMAIN api_response_raw[1] /\ "data" \in DOMAIN api_response_raw[1])

(***************************************************************************)
(* C12.  A failed search of any of the three kinds is formatted into a     *)
(* text "Error: " + message, and the request then ends like a request that *)
(* matched nothing: the same response with the apology, no cards and the   *)
(* stage-1 query, returned as a ChatResponse, after one engine call only.  *)
(***************************************************************************)
SearchFailed ==
    /\ network_outcome # None
    /\ \/ StatusFailure(network_outcome[1])
       \/ TransportFailure(network_outcome[1])
       \/ OtherFailure(network_outcome[1])

C12_FailureEndsLikeNoMatch ==
    SearchFailed =>
        /\ pc \in {"format", "done"}
        /\ api_response_formatted # None =>
               /\ StartsWith(api_response_formatted[1], ErrorPrefix)
               /\ api_response_formatted[1] =
                      <<"Error", ":", " ">> \o api_response_raw[1].message
        /\ pc = "done" =>
               /\ response = Some(ChatResponse(ApologyMessage, <<>>, api_query[1]))
               /\ response[1].kind = "ChatResponse"
               /\ stages = ShortCircuitRun
               /\ Len(engine_calls) = 1
               /\ answer = None

C12_Witness ==
    /\ SearchFailed
    /\ StatusFailure(network_outcome[1])
    /\ network_outcome[1].status_code = 429
    /\ pc = "done"
    /\ Returned
    /\ response[1].response = ApologyMessage

(***************************************************************************)
(* C13.  No partial result is returned: a request ends with a complete     *)
(* ChatResponse (text, at most 5 cards, the stage-1 query) or with the     *)
(* failure of the whole request.  When the engine raises or is not loaded  *)
(* in stage 1 the request fails and no search is issued; when it raises in *)
(* stage 2 the request fails and neither cards nor a query are returned.   *)
(***************************************************************************)
EngineRaised(n) == Len(engine_returns) >= n /\ "raised" \in DOMAIN engine_returns[n]

CompleteAnswer(r) ==
    /\ r.kind = "ChatResponse"
    /\ DOMAIN r = {"kind", "response", "cards", "query_used"}
    /\ Len(r.cards) <= CARD_LIMIT
    /\ api_query # None /\ r.query_used = api_query[1]
    /\ \/ r.response = ApologyMessage /\ r.cards = <<>>
       \/ answer # None /\ r.response = answer[1]

WholeFailure(r) ==
    /\ r = HTTPException500
    /\ DOMAIN r \cap {"response", "cards", "query_used"} = {}

C13_NoPartialResults ==
    /\ pc # "done" => response = None
    /\ pc = "done" =>
           /\ response # None
           /\ CompleteAnswer(response[1]) \/ WholeFailure(response[1])
    /\ (pc # "start" /\ ~is_loaded) => EngineRaised(1)
    /\ EngineRaised(1) =>
           /\ pc = "done" /\ WholeFailure(response[1])
           /\ stages = <<"QueryGeneration">>
           /\ search_calls = <<>> /\ requests_sent = 0
           /\ api_query = None /\ api_response_raw = None
    /\ EngineRaised(2) =>
           /\ pc = "done" /\ WholeFailure(response[1])
           /\ answer = None

C13_Witness ==
    /\ pc = "done"
    /\ EngineRaised(2)
    /\ api_response_raw # None /\ HasRecords(api_response_raw[1])
    /\ api_query # None /\ api_query[1] # <<>>
    /\ response = Some(HTTPException500)

(***************************************************************************)
(* C14.  Nothing is retried: in every execution of a request the search    *)
(* executor is called at most once and issues at most one network request, *)
(* and the engine is called at most twice, once for stage 1 and once for   *)
(* stage 2, whatever fails.                                                *)
(***************************************************************************)
Occurrences(seq, x) == Cardinality({i \in 1..Len(seq) : seq[i] = x})

C14_NoRetries ==
    /\ Len(search_calls) <= 1
    /\ requests_sent <= 1
    /\ requests_sent = Len(search_calls)
    /\ Len(engine_calls) <= 2
    /\ Len(engine_returns) = Len(engine_calls)
    /\ \A st \in Range(stages) : Occurrences(stages, st) = 1
    /\ Len(engine_calls) >= 1 =>
           engine_calls[1].prompt = get_query_generation_prompt(message)
    /\ Len(engine_calls) = 2 =>
           /\ engine_calls[2].prompt # engine_calls[1].prompt
           /\ engine_calls[2].max_new_tokens = ANSWER_MAX_NEW_TOKENS
    /\ SearchFailed => (requests_sent = 1 /\ pc \in {"format", "done"})

C14_Witness ==
    /\ pc = "done"
    /\ SearchFailed
    /\ TransportFailure(network_outcome[1])
    /\ requests_sent = 1
    /\ Len(search_calls) = 1
    /\ Len(engine_calls) = 1

(***************************************************************************)
(* C15.  The engine is one object for the whole process and is loaded      *)
(* once: every ModelManager() call yields the same instance, a load_model  *)
(* call made when the model is loaded leaves the model and the tokenizer   *)
(* as they are, and once is_loaded() is true it is true in every later     *)
(* state, with the same handles.                                           *)
(***************************************************************************)
C15_Singleton ==
    [][/\ last_new' # None => (last_new' = _instance' /\ objects' = 1)
       /\ last_new # None => last_new' = last_new
       /\ is_loaded => (is_loaded' /\ tokenizer' = tokenizer /\ model' = model)]_vars

C15_Witness ==
    /\ lifecycle = <<"ModelManager", "load_model", "Model already loaded.",
                     "ModelManager", "generate_response">>
    /\ is_loaded
    /\ objects = 1
    /\ last_new = _instance

(***************************************************************************)
(* C16.  The formatter on degenerate results: for an error the text is     *)
(* "Error: " followed by the error's message and the list of cards is      *)
(* empty; for a result without records the text is exactly "No cards found *)
(* matching the query." and the list of cards is empty.                    *)
(***************************************************************************)
C16_DegenerateInputs ==
    fmt_out # None =>
        LET p == fmt_in[1]
            r == fmt_out[1]
        IN  /\ "error" \in DOMAIN p =>
                   /\ r.text = <<"Error", ":", " ">> \o
                          (IF "message" \in DOMAIN p THEN p.message
                                                     ELSE <<"Unknown error">>)
                   /\ r.cards = <<>>
            /\ NoRecords(p) =>
                   /\ r.text = <<"No cards found", " ", "matching", " ", "the", " ",
                                 "query.">>
                   /\ r.cards = <<>>

C16_Witness ==
    /\ fmt_in = Some([error |-> <<"Partial">>, message |-> <<"Truncated">>,
                      data |-> <<CardFull>>])
    /\ fmt_out = Some([text |-> <<"Error", ":", " ", "Truncated">>, cards |-> <<>>])

(***************************************************************************)
(* C19.  In the card block of the display text every field missing from a  *)
(* record is rendered as one of "Unknown", "N/A" or "None", never as an    *)
(* empty string or another value.                                          *)
(***************************************************************************)
\* The value the block shows for a field of the record: what follows the
\* label of its line.
RenderedField(block, f) ==
    LET lines == SplitOn(block, <<"\n">>)
        value(n) == SubSeq(lines[n], 4, Len(lines[n]))
        type == SplitOn(value(3), <<" ", "-", " ">>)
    IN  CASE f = "name" -> value(1)
          [] f = "id" -> value(2)
          [] f = "supertype" -> type[1]
          [] f = "subtypes" -> type[2]
          [] f = "hp" -> value(4)
          [] f = "types" -> value(5)
          [] f = "weaknesses" -> value(6)
          [] f = "resistances" -> value(7)
          [] f = "retreatCost" -> value(8)
          [] f = "set" -> value(9)
          [] f = "rarity" -> value(10)
          [] f = "images" -> value(11)
          [] f = "abilities" -> value(12)
          [] f = "attacks" -> value(13)

\* The record has no value for the field: the key is missing, or the set
\* has no name, or the images have no small image.
Missing(card, f) ==
    \/ f \notin DOMAIN card
    \/ f = "set" /\ "name" \notin DOMAIN card[f]
    \/ f = "images" /\ "small" \notin DOMAIN card[f]

\* The blocks of the text, one per formatted record.
Blocks(text) == SplitOn(text, <<"\n", "\n", "---", "\n", "\n">>)

FormattedRecords ==
    /\ fmt_out # None
    /\ HasRecords(fmt_in[1])

C19_MissingAsDefault ==
    FormattedRecords =>
        LET cards == Take(fmt_in[1].data, CARD_LIMIT)
            blocks == Blocks(fmt_out[1].text)
        IN  \A i \in 1..Len(cards) : \A f \in CardFields :
                Missing(cards[i], f) =>
                    RenderedField(blocks[i], f) \in {<<"Unknown">>, <<"N/A">>, <<"None">>}

(***************************************************************************)
(* C19, amended.  Every missing field is rendered as the default of its    *)
(* field: "Unknown" for name, id, supertype, set and rarity, "N/A" for hp, *)
(* "None" for weaknesses, resistances, abilities and attacks, the empty    *)
(* string for subtypes, types and image URL, and 0 for the retreat cost.   *)
(***************************************************************************)
MissingFieldDefault(f) ==
    CASE f \in {"name", "id", "supertype", "set", "rarity"} -> <<"Unknown">>
      [] f = "hp" -> <<"N/A">>
      [] f \in {"weaknesses", "resistances", "abilities", "attacks"} -> <<"None">>
      [] f \in {"subtypes", "types", "images"} -> <<>>
      [] f = "retreatCost" -> <<"0">>

C19_FieldDefaults ==
    FormattedRecords =>
        LET cards == Take(fmt_in[1].data, CARD_LIMIT)
            blocks == Blocks(fmt_out[1].text)
        IN  /\ Len(blocks) = Len(cards)
            /\ \A i \in 1..Len(cards) : \A f \in CardFields :
                   Missing(cards[i], f) =>
                       RenderedField(blocks[i], f) = MissingFieldDefault(f)

C19_Witness ==
    /\ fmt_in = Some([data |-> <<EmptyDict>>])
    /\ fmt_out # None
    /\ fmt_out[1].text =
           <<"Card", ":", " ", "Unknown", "\n", "ID", ":", " ", "Unknown", "\n",
             "Type", ":", " ", "Unknown", " ", "-", " ", "\n",
             "HP", ":", " ", "N/A", "\n", "Types", ":", " ", "\n",
             "Weaknesses", ":", " ", "None", "\n",
             "Resistances", ":", " ", "None", "\n",
             "Retreat Cost", ":", " ", "0", "\n", "Set", ":", " ", "Unknown", "\n",
             "Rarity", ":", " ", "Unknown", "\n", "Image URL", ":", " ", "\n",
             "Abilities", ":", " ", "None", "\n", "Attacks", ":", " ", "None">>

(***************************************************************************)
(* C18.  The demo search returns the record of the first key of the table  *)
(* that occurs in the query, the letter case of both ignored, and the      *)
(* empty result when no key does; it issues no network request.            *)
(***************************************************************************)
DemoSearched == demo_mode /\ api_response_raw # None

\* The places of the table whose key satisfies the test of a loop.
KeysInQueryAnyCase ==
    {i \in 1..Len(demo_data) : Contains(Lower(api_query[1]), Lower(demo_data[i].key))}

C18_FirstKeyInQuery ==
    DemoSearched =>
        /\ IF KeysInQueryAnyCase # {}
           THEN api_response_raw[1] = demo_data[SetMin(KeysInQueryAnyCase)].value
           ELSE /\ "data" \in DOMAIN api_response_raw[1]
                /\ api_response_raw[1].data = <<>>
        /\ requests_sent = 0 /\ search_calls = <<>> /\ network_outcome = None

(***************************************************************************)
(* C20.  The query of stage 1 holds no newline and no whitespace at its    *)
(* ends, whatever the engine wrote; apart from that it is the engine's     *)
(* text; and the same string goes to the search and into query_used.       *)
(***************************************************************************)
\* The places of the text that are not whitespace.
Inked(text) == {i \in 1..Len(text) : text[i] \notin Whitespace}

C20_QueryCleanAndUsed ==
    api_query # None =>
        LET q == api_query[1]
            content == engine_returns[1].content
            from == SetMin(Inked(content))
            to == SetMax(Inked(content))
        IN  /\ "\n" \notin Range(q)
            /\ q # <<>> => (q[1] \notin Whitespace /\ q[Len(q)] \notin Whitespace)
            /\ IF Inked(content) = {} THEN q = <<>>
               ELSE /\ Len(q) = to - from + 1
                    /\ \A i \in 1..Len(q) :
                           q[i] = IF content[from + i - 1] = "\n" THEN " "
                                  ELSE content[from + i - 1]
            /\ \A i \in 1..Len(search_calls) : search_calls[i].query = q
            /\ (~demo_mode /\ pc \notin {"start", "search"}) => Len(search_calls) = 1
            /\ DemoSearched => api_response_raw[1] = _search_in_demo_data(demo_data, q)
            /\ Returned => response[1].query_used = q

C20_Witness ==
    /\ output_ids = <<TOK_SP, TOK_NAME, TOK_NL, TOK_PIKACHU>>
    /\ demo_mode
    /\ api_query = Some(<<"name", " ", "Pikachu">>)
    /\ Returned
    /\ response[1].query_used = <<"name", " ", "Pikachu">>
    /\ response[1].cards # <<>>

(***************************************************************************)
(* C21.  With several requests on one event loop at most one call of       *)
(* generate_response is in progress at any time: the call holds the loop   *)
(* from its entry to its return, and a request that does not hold the loop *)
(* is new, done, or at the network await of the search.                    *)
(***************************************************************************)
C21_OneEngineAtATime ==
    /\ Cardinality(in_engine) <= 1
    /\ \A r \in in_engine : running = Some(r)
    /\ \A r \in DOMAIN tasks :
           running # Some(r) => tasks[r].pc \in {"new", "awaiting", "arrived", "done"}

\* The response of request 1 has arrived while request 2 is in stage 1.
C21_Witness ==
    /\ tasks # <<>>
    /\ tasks[1].pc = "arrived"
    /\ tasks[2].pc = "in_stage1"
    /\ in_engine = {2}
    /\ running = Some(2)

(***************************************************************************)
(* C22.  In the frontend session, after any prompts (answered or failed)   *)
(* and Clear Conversation clicks, conversation_history has even length and *)
(* alternates user, assistant from a user entry; a failed backend call     *)
(* leaves conversation_history as it was sent while messages gains the     *)
(* prompt and an error entry; and the history sent with a request does not *)
(* hold the turn of that request.                                          *)
(***************************************************************************)
Alternates(history) ==
    /\ Len(history) % 2 = 0
    /\ \A i \in 1..Len(history) :
           history[i].role = IF i % 2 = 1 THEN "user" ELSE "assistant"

LastMessage == session_messages[Len(session_messages)]

\* The session right after a failed backend call.
AfterFailedCall ==
    /\ script = "idle"
    /\ session_messages # <<>>
    /\ LastMessage = [role |-> "assistant", content |-> ErrorMessage]

C22_SessionState ==
    /\ Alternates(session_conversation_history)
    /\ AfterFailedCall =>
           /\ Len(session_messages) >= 2
           /\ session_messages[Len(session_messages) - 1] =
                  [role |-> "user", content |-> sent[1].message]
           /\ session_conversation_history = sent[1].history
    /\ sent # None => Alternates(sent[1].history)
    /\ script = "waiting" =>
           /\ sent[1].history = session_conversation_history
           /\ LastMessage = [role |-> "user", content |-> sent[1].message]
           /\ Len(sent[1].history) + 2 <= 2 * submissions

\* An answered prompt, then a failed one.
C22_Witness ==
    /\ AfterFailedCall
    /\ Len(session_messages) = 4
    /\ Len(session_conversation_history) = 2
    /\ session_conversation_history[1].content = sent[1].message
    /\ submissions = 2

=============================================================================
